---- MODULE Spec2Model ----
(***************************************************************************)
(* Model of start_transcription (src/main.py): model-path check, model and *)
(* recognizer construction, PyAudio set-up, the capture/decode/print loop, *)
(* the two except handlers and the finally block.  Every statement that    *)
(* can raise is one step; a KeyboardInterrupt may be raised at any         *)
(* statement boundary.                                                      *)
(***************************************************************************)
EXTENDS Integers, Sequences, FiniteSets

\* ---- bounds -------------------------------------------------------------
MaxFrames == 3          \* frames the device delivers in one run
MaxInterrupts == 2      \* Ctrl+C presses in one run

\* ---- configuration (src/main.py) ----------------------------------------
\* stream.read(CHUNK, exception_on_overflow=False)
ExceptionOnOverflow == FALSE

\* a frame is a word spoken in it, or silence
Silence == "sil"
Words == {"hello", "world"}
Frames == Words \cup {Silence}
NoData == "nodata"

\* outcomes of one blocking device read
ReadOutcomes == {"ok", "overflow", "error"}

VARIABLES
    pc,           \* statement about to execute
    outcome,      \* how the call ended: "none" while executing
    pending,      \* exception to re-raise once the finally block completes
    pathExists,   \* os.path.exists(MODEL_PATH)
    model,        \* "none" | "loaded"
    recognizer,   \* "none" | "created"
    audio,        \* PyAudio instance: "none" | "live" | "terminated"
    stream,       \* input stream: "none" | "active" | "stopped" | "closed"
    openCalls,    \* number of audio.open calls made
    data,         \* local `data`: last frame read
    utterance,    \* recognizer decode state: words since last final result
    text,         \* local final_text / partial_text
    output,       \* lines printed, in order
    framesRead,   \* frames returned by stream.read
    framesPushed, \* AcceptWaveform calls that returned
    acceptLog,    \* return value of each AcceptWaveform call
    events,       \* results taken from the recognizer, in order
    dispatched,   \* events handed to the print branch that completed
    captured,     \* frames returned by stream.read, in order
    pushed,       \* frames passed to AcceptWaveform, in order
    interrupts,   \* KeyboardInterrupts raised so far
    errors,       \* Exceptions raised inside the try body
    overflows,    \* reads that hit a buffer overflow
    setupFailed,  \* a set-up statement raised
    leftBy        \* what ended the loop: "none" | "interrupt" | "error"

vars == <<pc, outcome, pending, pathExists, model, recognizer, audio, stream,
          openCalls, data, utterance, text, output, framesRead,
          framesPushed, acceptLog, events, dispatched, interrupts, errors,
          overflows, setupFailed, leftBy, captured, pushed>>

SetupPcs == {"check_path", "load_model", "make_recognizer", "pyaudio_init",
             "open_stream", "print_listening"}
LoopPcs == {"read", "accept", "result", "print_final", "partial",
            "print_partial"}
HandlerPcs == {"except_kbd", "except_exc"}
FinallyPcs == {"fin_stop", "fin_close", "fin_terminate", "fin_print"}

\* SessionState of the specification, read off the program position
SessionState ==
    IF pc \in SetupPcs THEN "NotStarted"
    ELSE IF pc \in LoopPcs THEN "Running"
    ELSE IF pc \in HandlerPcs \cup FinallyPcs THEN "Stopping"
    ELSE "Stopped"

Line(k, t) == [kind |-> k, text |-> t]
Emit(out, k, t) == Append(out, Line(k, t))

\* dict.get(key, default) on a parsed JSON object
Get(json, key, default) == IF key \in DOMAIN json THEN json[key] ELSE default

\* recognizer.Result(): JSON of the finished utterance
Result(u) == [text |-> u]
\* recognizer.PartialResult(): JSON of the utterance so far
PartialResult(u) == [partial |-> u]

Init ==
    /\ pc = "check_path"
    /\ outcome = "none"
    /\ pending = "none"
    /\ pathExists \in BOOLEAN
    /\ model = "none"
    /\ recognizer = "none"
    /\ audio = "none"
    /\ stream = "none"
    /\ openCalls = 0
    /\ data = NoData
    /\ utterance = <<>>
    /\ text = <<>>
    /\ output = <<>>
    /\ framesRead = 0
    /\ framesPushed = 0
    /\ acceptLog = <<>>
    /\ events = <<>>
    /\ dispatched = 0
    /\ captured = <<>>
    /\ pushed = <<>>
    /\ interrupts = 0
    /\ errors = 0
    /\ overflows = 0
    /\ setupFailed = FALSE
    /\ leftBy = "none"

\* ---- set-up (lines 18-39, outside the try) --------------------------------

\* an exception raised outside the try propagates to the caller
RaiseInSetup ==
    /\ pc' = "done"
    /\ outcome' = "Exception"
    /\ setupFailed' = TRUE

\* the check without its early return
CheckModelPath_NoReturn ==
    /\ pc = "check_path"
    /\ output' = Emit(output, "Loading", <<>>)
    /\ pc' = "load_model"
    /\ UNCHANGED <<captured, pushed, outcome, pending, pathExists, model, recognizer, audio,
                   stream, openCalls, data, utterance, text, framesRead,
                   framesPushed, acceptLog, events, dispatched, interrupts,
                   errors, overflows, setupFailed, leftBy>>

\* lines 18-24
CheckModelPath ==
    /\ pc = "check_path"
    /\ IF ~pathExists
         THEN /\ output' = Emit(Emit(output, "ModelNotFound", <<>>),
                                 "DownloadHint", <<>>)
              /\ pc' = "done"
              /\ outcome' = "returned"
         ELSE /\ output' = Emit(output, "Loading", <<>>)
              /\ pc' = "load_model"
              /\ UNCHANGED outcome
    /\ UNCHANGED <<captured, pushed, pending, pathExists, model, recognizer, audio, stream,
                   openCalls, data, utterance, text, framesRead,
                   framesPushed, acceptLog, events, dispatched, interrupts, errors,
                   overflows, setupFailed, leftBy>>

\* a failed load that is not raised
LoadModel_IgnoreFailure ==
    /\ pc = "load_model"
    /\ \E ok \in BOOLEAN :
         /\ model' = IF ok THEN "loaded" ELSE model
         /\ pc' = "make_recognizer"
    /\ UNCHANGED <<captured, pushed, outcome, setupFailed, pending, pathExists,
                   recognizer, audio, stream, openCalls, data, utterance,
                   text, output, framesRead, framesPushed, acceptLog, events,
                   dispatched, interrupts, errors, overflows, leftBy>>

\* line 25
LoadModel ==
    /\ pc = "load_model"
    /\ \E ok \in BOOLEAN :
         IF ok
           THEN /\ model' = "loaded"
                /\ pc' = "make_recognizer"
                /\ UNCHANGED <<outcome, setupFailed>>
           ELSE /\ RaiseInSetup
                /\ UNCHANGED model
    /\ UNCHANGED <<captured, pushed, pending, pathExists, recognizer, audio, stream, openCalls,
                   data, utterance, text, output, framesRead,
                   framesPushed, acceptLog, events, dispatched, interrupts, errors,
                   overflows, leftBy>>

MakeRecognizer ==
    /\ pc = "make_recognizer"
    /\ \E ok \in BOOLEAN :
         IF ok
           THEN /\ recognizer' = "created"
                /\ pc' = "pyaudio_init"
                /\ UNCHANGED <<outcome, setupFailed>>
           ELSE /\ RaiseInSetup
                /\ UNCHANGED recognizer
    /\ UNCHANGED <<captured, pushed, pending, pathExists, model, audio, stream, openCalls,
                   data, utterance, text, output, framesRead,
                   framesPushed, acceptLog, events, dispatched, interrupts, errors,
                   overflows, leftBy>>

PyAudioInit ==
    /\ pc = "pyaudio_init"
    /\ \E ok \in BOOLEAN :
         IF ok
           THEN /\ audio' = "live"
                /\ pc' = "open_stream"
                /\ UNCHANGED <<outcome, setupFailed>>
           ELSE /\ RaiseInSetup
                /\ UNCHANGED audio
    /\ UNCHANGED <<captured, pushed, pending, pathExists, model, recognizer, stream, openCalls,
                   data, utterance, text, output, framesRead,
                   framesPushed, acceptLog, events, dispatched, interrupts, errors,
                   overflows, leftBy>>

OpenStream ==
    /\ pc = "open_stream"
    /\ openCalls' = openCalls + 1
    /\ \E ok \in BOOLEAN :
         IF ok
           THEN /\ stream' = "active"
                /\ pc' = "print_listening"
                /\ UNCHANGED <<outcome, setupFailed>>
           ELSE /\ RaiseInSetup
                /\ UNCHANGED stream
    /\ UNCHANGED <<captured, pushed, pending, pathExists, model, recognizer, audio,
                   data, utterance, text, output, framesRead,
                   framesPushed, acceptLog, events, dispatched, interrupts, errors,
                   overflows, leftBy>>

PrintListening ==
    /\ pc = "print_listening"
    /\ output' = Emit(Emit(output, "Listening", <<>>), "CtrlCHint", <<>>)
    /\ pc' = "read"
    /\ UNCHANGED <<captured, pushed, outcome, pending, pathExists, model, recognizer, audio,
                   stream, openCalls, data, utterance, text,
                   framesRead, framesPushed, acceptLog, events, dispatched, interrupts,
                   errors, overflows, setupFailed, leftBy>>

\* ---- the try body (lines 43-59) -------------------------------------------

\* stream.read raises on an unrecoverable device error, and on a buffer
\* overflow only when exception_on_overflow is set
ReadRaises_OverflowFatal(r) == r \in {"error", "overflow"}
ReadRaises(r) == r = "error" \/ (r = "overflow" /\ ExceptionOnOverflow)

\* where an Exception raised in the try body continues, given the number of
\* Exceptions raised there before: the `except Exception` clause
OnLoopException_RetryOnce(n) == IF n = 0 THEN "read" ELSE "except_exc"
OnLoopException(n) == "except_exc"

\* an Exception raised by a statement of the try body
RaiseInLoop ==
    /\ errors' = errors + 1
    /\ pc' = OnLoopException(errors)
    /\ leftBy' = IF OnLoopException(errors) \in LoopPcs THEN leftBy ELSE "error"

ReadFrame ==
    /\ pc = "read"
    /\ framesRead < MaxFrames
    /\ \E f \in Frames, r \in ReadOutcomes :
         /\ overflows' = IF r = "overflow" THEN overflows + 1 ELSE overflows
         /\ IF ReadRaises(r)
              THEN /\ RaiseInLoop
                   /\ UNCHANGED <<data, framesRead, captured>>
              ELSE /\ data' = f
                   /\ captured' = Append(captured, f)
                   /\ framesRead' = framesRead + 1
                   /\ pc' = "accept"
                   /\ UNCHANGED <<errors, leftBy>>
    /\ UNCHANGED <<pushed, outcome, pending, pathExists, model, recognizer, audio,
                   stream, openCalls, utterance, text, output, framesPushed,
                   acceptLog, events, dispatched, interrupts, setupFailed>>

\* recognizer.AcceptWaveform(data): feeds the frame into the decode state and
\* reports whether the utterance ended; an endpoint needs trailing silence
AcceptWaveform ==
    /\ pc = "accept"
    /\ \/ /\ RaiseInLoop
          /\ UNCHANGED <<utterance, framesPushed, acceptLog, pushed>>
       \/ \E e \in (IF data = Silence THEN BOOLEAN ELSE {FALSE}) :
            /\ utterance' = IF data \in Words THEN Append(utterance, data)
                            ELSE utterance
            /\ framesPushed' = framesPushed + 1
            /\ pushed' = Append(pushed, data)
            /\ acceptLog' = Append(acceptLog, e)
            /\ pc' = IF e THEN "result" ELSE "partial"
            /\ UNCHANGED <<errors, leftBy>>
    /\ UNCHANGED <<captured, outcome, pending, pathExists, model, recognizer, audio,
                   stream, openCalls, data, text, output, framesRead, events, dispatched,
                   interrupts, overflows, setupFailed>>

Event(k, t) == [frame |-> framesPushed, kind |-> k, text |-> t]

\* the final branch also taking the partial result
TakeResult_AlsoPartial ==
    /\ pc = "result"
    /\ text' = Get(Result(utterance), "text", <<>>)
    /\ events' = Append(Append(events, Event("Final", Result(utterance).text)),
                        Event("Partial", PartialResult(utterance).partial))
    /\ utterance' = <<>>
    /\ pc' = "print_final"
    /\ UNCHANGED <<captured, pushed, dispatched, outcome, pending, pathExists, model, recognizer,
                   audio, stream, openCalls, data, output, framesRead,
                   framesPushed, acceptLog, interrupts, errors, overflows,
                   setupFailed, leftBy>>

\* lines 49-50: the final result is taken and the decode state starts afresh
TakeResult ==
    /\ pc = "result"
    /\ text' = Get(Result(utterance), "text", <<>>)
    /\ events' = Append(events, Event("Final", Result(utterance).text))
    /\ utterance' = <<>>
    /\ pc' = "print_final"
    /\ UNCHANGED <<captured, pushed, dispatched, outcome, pending, pathExists, model, recognizer, audio,
                   stream, openCalls, data, output, framesRead, framesPushed,
                   acceptLog, interrupts, errors, overflows, setupFailed,
                   leftBy>>

\* line 51: `if final_text:`
ShouldPrintFinal_Always(t) == TRUE
ShouldPrintFinal(t) == t # <<>>

\* lines 51-52
PrintFinal ==
    /\ pc = "print_final"
    /\ output' = IF ShouldPrintFinal(text) THEN Emit(output, "Final", text)
                 ELSE output
    /\ dispatched' = dispatched + 1
    /\ pc' = "read"
    /\ UNCHANGED <<captured, pushed, outcome, pending, pathExists, model, recognizer, audio,
                   stream, openCalls, data, utterance, text, framesRead,
                   framesPushed, acceptLog, events, interrupts, errors,
                   overflows, setupFailed, leftBy>>

\* the partial branch going back to the read without printing
TakePartial_NoDispatch ==
    /\ pc = "partial"
    /\ text' = Get(PartialResult(utterance), "partial", <<>>)
    /\ events' = Append(events, Event("Partial", PartialResult(utterance).partial))
    /\ pc' = "read"
    /\ UNCHANGED <<captured, pushed, dispatched, outcome, pending, pathExists,
                   model, recognizer, audio, stream, openCalls, data,
                   utterance, output, framesRead, framesPushed, acceptLog,
                   interrupts, errors, overflows, setupFailed, leftBy>>

\* the partial branch calling Result() where PartialResult() is meant
TakePartial_CallsResult ==
    /\ pc = "partial"
    /\ text' = Get(Result(utterance), "partial", <<>>)
    /\ events' = Append(events, Event("Partial",
                                      Get(Result(utterance), "partial", <<>>)))
    /\ utterance' = <<>>
    /\ pc' = "print_partial"
    /\ UNCHANGED <<captured, pushed, dispatched, outcome, pending, pathExists,
                   model, recognizer, audio, stream, openCalls, data, output,
                   framesRead, framesPushed, acceptLog, interrupts, errors,
                   overflows, setupFailed, leftBy>>

\* lines 55-56
TakePartial ==
    /\ pc = "partial"
    /\ text' = Get(PartialResult(utterance), "partial", <<>>)
    /\ events' = Append(events, Event("Partial", PartialResult(utterance).partial))
    /\ pc' = "print_partial"
    /\ UNCHANGED <<captured, pushed, dispatched, outcome, pending, pathExists, model, recognizer, audio,
                   stream, openCalls, data, utterance, output, framesRead,
                   framesPushed, acceptLog, interrupts, errors, overflows,
                   setupFailed, leftBy>>

\* the partial print guarded like the final print
PrintPartial_SkipEmpty ==
    /\ pc = "print_partial"
    /\ output' = IF text # <<>> THEN Emit(output, "Partial", text) ELSE output
    /\ dispatched' = dispatched + 1
    /\ pc' = "read"
    /\ UNCHANGED <<captured, pushed, outcome, pending, pathExists, model,
                   recognizer, audio, stream, openCalls, data, utterance,
                   text, framesRead, framesPushed, acceptLog, events,
                   interrupts, errors, overflows, setupFailed, leftBy>>

\* line 59
PrintPartial ==
    /\ pc = "print_partial"
    /\ output' = Emit(output, "Partial", text)
    /\ dispatched' = dispatched + 1
    /\ pc' = "read"
    /\ UNCHANGED <<captured, pushed, outcome, pending, pathExists, model, recognizer, audio,
                   stream, openCalls, data, utterance, text, framesRead,
                   framesPushed, acceptLog, events, interrupts, errors,
                   overflows, setupFailed, leftBy>>

\* ---- except clauses (lines 61-64) -----------------------------------------

\* the interrupt handler placed inside the while loop
ExceptKeyboardInterrupt_Resume ==
    /\ pc = "except_kbd"
    /\ output' = Emit(output, "Stopping", <<>>)
    /\ pc' = "read"
    /\ UNCHANGED <<captured, pushed, outcome, pending, pathExists, model,
                   recognizer, audio, stream, openCalls, data, utterance,
                   text, framesRead, framesPushed, acceptLog, events,
                   dispatched, interrupts, errors, overflows, setupFailed,
                   leftBy>>

\* lines 61-62
ExceptKeyboardInterrupt ==
    /\ pc = "except_kbd"
    /\ output' = Emit(output, "Stopping", <<>>)
    /\ pc' = "fin_stop"
    /\ UNCHANGED <<captured, pushed, outcome, pending, pathExists, model, recognizer, audio,
                   stream, openCalls, data, utterance, text, framesRead,
                   framesPushed, acceptLog, events, dispatched, interrupts, errors,
                   overflows, setupFailed, leftBy>>

ExceptException ==
    /\ pc = "except_exc"
    /\ output' = Emit(output, "Error", <<>>)
    /\ pc' = "fin_stop"
    /\ UNCHANGED <<captured, pushed, outcome, pending, pathExists, model, recognizer, audio,
                   stream, openCalls, data, utterance, text, framesRead,
                   framesPushed, acceptLog, events, dispatched, interrupts, errors,
                   overflows, setupFailed, leftBy>>

\* ---- finally block (lines 65-70) ------------------------------------------

\* an exception raised inside the finally block abandons the rest of it
RaiseInFinally ==
    /\ pc' = "done"
    /\ outcome' = "Exception"

StopStream ==
    /\ pc = "fin_stop"
    /\ \E ok \in BOOLEAN :
         IF ok
           THEN /\ stream' = "stopped"
                /\ pc' = "fin_close"
                /\ UNCHANGED outcome
           ELSE /\ RaiseInFinally
                /\ UNCHANGED stream
    /\ UNCHANGED <<captured, pushed, pending, pathExists, model, recognizer, audio, openCalls,
                   data, utterance, text, output, framesRead, framesPushed,
                   acceptLog, events, dispatched, interrupts, errors, overflows,
                   setupFailed, leftBy>>

CloseStream ==
    /\ pc = "fin_close"
    /\ \E ok \in BOOLEAN :
         IF ok
           THEN /\ stream' = "closed"
                /\ pc' = "fin_terminate"
                /\ UNCHANGED outcome
           ELSE /\ RaiseInFinally
                /\ UNCHANGED stream
    /\ UNCHANGED <<captured, pushed, pending, pathExists, model, recognizer, audio, openCalls,
                   data, utterance, text, output, framesRead, framesPushed,
                   acceptLog, events, dispatched, interrupts, errors, overflows,
                   setupFailed, leftBy>>

Terminate ==
    /\ pc = "fin_terminate"
    /\ \E ok \in BOOLEAN :
         IF ok
           THEN /\ audio' = "terminated"
                /\ pc' = "fin_print"
                /\ UNCHANGED outcome
           ELSE /\ RaiseInFinally
                /\ UNCHANGED audio
    /\ UNCHANGED <<captured, pushed, pending, pathExists, model, recognizer, stream, openCalls,
                   data, utterance, text, output, framesRead, framesPushed,
                   acceptLog, events, dispatched, interrupts, errors, overflows,
                   setupFailed, leftBy>>

\* line 70, then the pending exception (if any) is re-raised
PrintClosed ==
    /\ pc = "fin_print"
    /\ output' = Emit(output, "Closed", <<>>)
    /\ pc' = "done"
    /\ outcome' = IF pending = "none" THEN "returned" ELSE pending
    /\ UNCHANGED <<captured, pushed, pending, pathExists, model, recognizer, audio, stream,
                   openCalls, data, utterance, text, framesRead,
                   framesPushed, acceptLog, events, dispatched, interrupts, errors,
                   overflows, setupFailed, leftBy>>

\* ---- Ctrl+C ---------------------------------------------------------------

\* KeyboardInterrupt raised at the statement about to execute: caught only
\* inside the try body; raised in an except clause it runs the finally block
\* and propagates; raised anywhere else it propagates at once
Interrupt ==
    /\ pc # "done"
    /\ interrupts < MaxInterrupts
    /\ interrupts' = interrupts + 1
    /\ CASE pc \in LoopPcs ->
              /\ pc' = "except_kbd"
              /\ leftBy' = "interrupt"
              /\ UNCHANGED <<outcome, pending>>
         [] pc \in HandlerPcs ->
              /\ pc' = "fin_stop"
              /\ pending' = "KeyboardInterrupt"
              /\ UNCHANGED <<outcome, leftBy>>
         [] OTHER ->
              /\ pc' = "done"
              /\ outcome' = "KeyboardInterrupt"
              /\ UNCHANGED <<pending, leftBy>>
    /\ UNCHANGED <<captured, pushed, pathExists, model, recognizer, audio, stream, openCalls,
                   data, utterance, text, output, framesRead, framesPushed,
                   acceptLog, events, dispatched, errors, overflows, setupFailed>>

Next ==
    \/ CheckModelPath
    \/ LoadModel
    \/ MakeRecognizer
    \/ PyAudioInit
    \/ OpenStream
    \/ PrintListening
    \/ ReadFrame
    \/ AcceptWaveform
    \/ TakeResult
    \/ PrintFinal
    \/ TakePartial
    \/ PrintPartial
    \/ ExceptKeyboardInterrupt
    \/ ExceptException
    \/ StopStream
    \/ CloseStream
    \/ Terminate
    \/ PrintClosed
    \/ Interrupt

Spec == Init /\ [][Next]_vars

TypeOK ==
    /\ pc \in SetupPcs \cup LoopPcs \cup HandlerPcs \cup FinallyPcs \cup {"done"}
    /\ outcome \in {"none", "returned", "Exception", "KeyboardInterrupt"}
    /\ pending \in {"none", "KeyboardInterrupt"}
    /\ audio \in {"none", "live", "terminated"}
    /\ stream \in {"none", "active", "stopped", "closed"}
    /\ framesRead \in 0..MaxFrames
    /\ framesPushed \in 0..MaxFrames
    /\ interrupts \in 0..MaxInterrupts

\* ---- properties -----------------------------------------------------------

\* some part of the audio device is held: the PyAudio instance is not
\* terminated or the input stream is not closed
DeviceHeld == audio = "live" \/ stream \in {"active", "stopped"}
DeviceReleased == stream = "closed" /\ audio = "terminated"

\* C1: every run that entered the capture loop and left it (interrupt or
\* error) ends with the stream stopped and closed and PyAudio terminated
C1_LoopExitReleasesDevice ==
    (pc = "done" /\ leftBy # "none") => DeviceReleased

\* C2: the audio device is held if and only if the session is Running or
\* Stopping
C2_DeviceHeldIffRunningOrStopping ==
    DeviceHeld <=> SessionState \in {"Running", "Stopping"}

\* C3: a run ended by a failing set-up step holds no audio resource
C3_SetupFailureReleasesAll ==
    (pc = "done" /\ setupFailed) => ~DeviceHeld

\* C4: with a missing model path nothing is loaded, created or opened, and the
\* run ends by printing the model-not-found message
ModelNotFoundOutput ==
    <<Line("ModelNotFound", <<>>), Line("DownloadHint", <<>>)>>
C4_ModelNotFoundOpensNothing ==
    ~pathExists =>
        /\ model = "none"
        /\ recognizer = "none"
        /\ audio = "none"
        /\ stream = "none"
        /\ openCalls = 0
        /\ pc \in {"check_path", "done"}
        /\ (pc = "done" /\ interrupts = 0) =>
               (outcome = "returned" /\ output = ModelNotFoundOutput)
C4_Witness ==
    ~pathExists /\ pc = "done" /\ outcome = "returned"
        /\ output = ModelNotFoundOutput

\* C5: once an interrupt has ended the loop, every frame read was pushed, its
\* result taken and dispatched
C5_InterruptLosesNoFrame ==
    leftBy = "interrupt" =>
        /\ framesPushed = framesRead
        /\ Len(events) = framesPushed
        /\ dispatched = Len(events)

\* C6: a run in which an interrupt arrived returns normally
C6_InterruptReturnsNormally ==
    (pc = "done" /\ interrupts > 0) => outcome = "returned"

\* C7 (as stated): Running is left only on an interrupt or on a second error;
\* the first error leaves the session Running, about to read the next frame
C7_LeavesRunningOnSecondError ==
    [][ /\ (SessionState = "Running" /\ SessionState' # "Running")
            => (interrupts' > interrupts \/ errors' >= 2)
        /\ (errors = 0 /\ errors' = 1) => pc' = "read" ]_vars

\* C7 (amended): Running is left only on an interrupt or on the first
\* Exception raised in the loop; either moves the session to Stopping, and no
\* frame is read once Running is left
C7_LeavesRunningOnInterruptOrFirstError ==
    [][ /\ (SessionState = "Running" /\ SessionState' # "Running")
            => /\ SessionState' = "Stopping"
               /\ \/ interrupts' = interrupts + 1 /\ pc' = "except_kbd"
                  \/ errors = 0 /\ errors' = 1 /\ pc' = "except_exc"
        /\ errors' > errors => SessionState' = "Stopping"
        /\ SessionState # "Running" => framesRead' = framesRead ]_vars
C7_Witness ==
    pc = "except_exc" /\ errors = 1 /\ framesRead > 0 /\ interrupts = 0

\* C8: the Final lines printed are exactly the non-empty texts of the Final
\* events dispatched, in order; no Final line is empty
IsFinalLine(l) == l.kind = "Final"
IsNonEmptyFinal(e) == e.kind = "Final" /\ e.text # <<>>
Texts(s) == [i \in DOMAIN s |-> s[i].text]
C8_EmptyFinalSuppressed ==
    /\ \A i \in DOMAIN output :
         output[i].kind = "Final" => output[i].text # <<>>
    /\ dispatched <= Len(events)
    /\ Texts(SelectSeq(output, IsFinalLine))
         = Texts(SelectSeq(SubSeq(events, 1, dispatched), IsNonEmptyFinal))
C8_Witness ==
    /\ \E i \in 1..dispatched :
         events[i].kind = "Final" /\ events[i].text = <<>>
    /\ \E i \in 1..dispatched :
         events[i].kind = "Final" /\ events[i].text # <<>>
    /\ \E i \in DOMAIN output : output[i].kind = "Final"

\* C9: the k-th frame pushed yields the k-th event and no other: a Final when
\* AcceptWaveform returned true, a Partial when it returned false
C9_OneEventPerFrame ==
    /\ Len(acceptLog) = framesPushed
    /\ \A i \in DOMAIN events :
         /\ events[i].frame = i
         /\ events[i].kind = IF acceptLog[i] THEN "Final" ELSE "Partial"
    /\ pc \in {"read", "accept", "print_final", "print_partial"}
         => Len(events) = framesPushed
    /\ pc \in {"result", "partial"} => Len(events) = framesPushed - 1
C9_Witness ==
    /\ pc = "read"
    /\ framesPushed = MaxFrames
    /\ Len(events) = MaxFrames
    /\ \E i \in DOMAIN events : events[i].kind = "Final"
    /\ \E i \in DOMAIN events : events[i].kind = "Partial"

\* C10: a read that overflows returns its frame: the session stays Running
\* with the frame about to be pushed, nothing is printed for the overflow, and
\* an error line is printed only after an Exception
C10_OverflowIsNotFatal ==
    /\ [][ overflows' > overflows
             => /\ SessionState' = "Running"
                /\ pc' = "accept"
                /\ framesRead' = framesRead + 1
                /\ errors' = errors
                /\ output' = output ]_vars
    /\ [](errors = 0 => \A i \in DOMAIN output : output[i].kind # "Error")
C10_Witness ==
    /\ overflows = 2
    /\ framesRead = 2
    /\ errors = 0
    /\ SessionState = "Running"
    /\ \A i \in DOMAIN output : output[i].kind # "Error"

\* C11: Running is entered only from the end of set-up, with the path checked,
\* the model loaded, the recognizer created and the stream opened by the one
\* open call, acquired in that order; a model failure ends the run before any
\* device call, and a failed set-up step ends the run (nothing is retried)
C11_RunningOnlyAfterSetup ==
    /\ [](( SessionState \in {"Running", "Stopping"} \/ leftBy # "none")
            => /\ pathExists
               /\ model = "loaded"
               /\ recognizer = "created"
               /\ audio # "none"
               /\ stream # "none"
               /\ openCalls = 1
               /\ ~setupFailed)
    /\ [](SessionState = "Running" => audio = "live" /\ stream = "active")
    /\ [](model = "loaded" => pathExists)
    /\ [](recognizer = "created" => model = "loaded")
    /\ [](audio # "none" => recognizer = "created")
    /\ [](openCalls > 0 => audio # "none")
    /\ [](stream # "none" => openCalls = 1)
    /\ []((setupFailed /\ recognizer = "none") => (audio = "none" /\ openCalls = 0))
    /\ [](setupFailed => (pc = "done" /\ outcome = "Exception" /\ openCalls <= 1))
    /\ [][ /\ (SessionState' = "Running" /\ SessionState # "Running")
               => (pc = "print_listening" /\ pc' = "read" /\ framesRead = 0)
           /\ pc # "done" ]_vars
C11_Witness ==
    /\ pc = "read"
    /\ framesRead = 0
    /\ interrupts = 0
    /\ model = "loaded"
    /\ recognizer = "created"
    /\ stream = "active"

\* C13: the Partial lines printed are exactly the texts of the Partial events
\* dispatched, in order, the empty ones included: one line for every
\* dispatched frame on which AcceptWaveform returned false
IsPartialLine(l) == l.kind = "Partial"
IsPartial(e) == e.kind = "Partial"
C13_EveryPartialRendered ==
    /\ dispatched <= Len(events)
    /\ Texts(SelectSeq(output, IsPartialLine))
         = Texts(SelectSeq(SubSeq(events, 1, dispatched), IsPartial))
    /\ Len(SelectSeq(output, IsPartialLine))
         = Cardinality({i \in 1..dispatched : ~acceptLog[i]})
C13_Witness ==
    /\ \E i \in DOMAIN output :
         output[i].kind = "Partial" /\ output[i].text = <<>>
    /\ \E i \in DOMAIN output :
         output[i].kind = "Partial" /\ output[i].text # <<>>

\* C14: the frames pushed are a prefix of the frames captured, at most one
\* frame is between read and dispatch, and a frame is read only when every
\* earlier frame has been pushed and its event dispatched
C14_FramesInOrderOneInFlight ==
    /\ [](/\ Len(captured) = framesRead
          /\ Len(pushed) = framesPushed
          /\ framesPushed <= framesRead
          /\ pushed = SubSeq(captured, 1, framesPushed)
          /\ dispatched <= framesPushed
          /\ framesRead - dispatched \in {0, 1}
          /\ (SessionState = "Running" /\ pc # "read") => data = captured[framesRead]
          /\ pc = "read" => (pushed = captured /\ dispatched = framesRead))
    /\ [][ framesRead' # framesRead
             => /\ pushed = captured
                /\ dispatched = framesRead
                /\ framesRead' = framesRead + 1 ]_vars
    /\ [][ pushed' # pushed => pushed' = Append(pushed, captured[framesRead]) ]_vars
C14_Witness ==
    /\ captured = <<"hello", "world", Silence>>
    /\ pushed = captured
    /\ dispatched = 3
    /\ pc = "read"

\* C15: the text of every event is the words pushed since the last Final
\* before it; an event is a Final exactly at an endpoint, and the decode state
\* is empty right after it
IsWord(f) == f \in Words
LastFinalBefore(i) ==
    LET S == {0} \cup {j \in 1..(i - 1) : acceptLog[j]}
    IN  CHOOSE j \in S : \A k \in S : k <= j
UtteranceAt(i) == SelectSeq(SubSeq(pushed, LastFinalBefore(i) + 1, i), IsWord)
C15_FinalResetsDecodeState ==
    /\ \A i \in DOMAIN events :
         /\ events[i].text = UtteranceAt(i)
         /\ events[i].kind = "Final" <=> acceptLog[i]
    /\ pc = "print_final" => utterance = <<>>
    /\ (pc = "read" /\ framesPushed > 0)
         => utterance = IF acceptLog[framesPushed] THEN <<>>
                        ELSE UtteranceAt(framesPushed)
C15_Witness ==
    \E i \in DOMAIN events :
        /\ events[i].kind = "Final"
        /\ events[i].text = <<"hello">>
        /\ i < Len(events)
        /\ events[i + 1].text = <<"world">>

\* C16: once the loop has been left no frame is read and only the stop, error
\* and closing lines are printed; the closing line is printed at most once,
\* and only with the stream closed and PyAudio terminated
IsClosedLine(l) == l.kind = "Closed"
C16_NothingAfterRunning ==
    /\ [][ leftBy # "none"
             => /\ framesRead' = framesRead
                /\ captured' = captured
                /\ pushed' = pushed
                /\ \/ output' = output
                   \/ \E k \in {"Stopping", "Error", "Closed"} :
                        output' = Emit(output, k, <<>>) ]_vars
    /\ [](Len(SelectSeq(output, IsClosedLine)) <= 1)
    /\ []((\E i \in DOMAIN output : output[i].kind = "Closed")
            => (stream = "closed" /\ audio = "terminated"))
    /\ []((\E i \in DOMAIN output : output[i].kind \in {"Stopping", "Error"})
            => leftBy # "none")
C16_Witness ==
    /\ pc = "done"
    /\ outcome = "returned"
    /\ leftBy = "interrupt"
    /\ \E i \in DOMAIN output : output[i].kind = "Closed"
    /\ \E i \in DOMAIN output : output[i].kind = "Partial"

====
